---- MODULE Spec2Model ----
(***************************************************************************)
(* A model of the OML text-protocol client OMLBase (src/oml4py.py): the    *)
(* connection life cycle (start/close), the measurement-point registry     *)
(* (addmp/_add_schema), and the marshaling and routing of measurement and  *)
(* metadata records (inject/inject_metadata).                              *)
(*                                                                         *)
(* Texts are sequences of atoms (one-character or one-word strings), so    *)
(* that concatenation is \o and the header, the schema lines and the       *)
(* record fields are built as the code builds them.  The transport and     *)
(* standard output are observed through the history variable wire, which   *)
(* lists every successful write in emission order.  The elapsed timestamp  *)
(* that starts each record is a clock reading and is not modelled.         *)
(***************************************************************************)
EXTENDS Integers, Sequences, FiniteSets, TLC

VARIABLES
    state,         \* self._state
    sock,          \* self._sock: NoSock, or the socket object (numbered as created)
    starttime,     \* self._starttime: "None" or "time"
    streams,       \* self._streams
    schemas,       \* self._schemas: mpname -> [stream, names, schema, schema_str, seqno]
    schema_str,    \* self._schema_str: text of the header's schema lines
    attrs,         \* self._has_valid_connection_attrs
    nsocks,        \* the number of socket objects created so far
    wire,          \* every successful write, to a socket or to stdout, in order
    call           \* the last public call: operation, state it was made in, value
                   \* returned, and for start and close the transport calls made
                   \* ("!" marks the one that raised)

vars == <<state, sock, starttime, streams, schemas, schema_str, attrs, nsocks, wire, call>>

-----------------------------------------------------------------------------
(* Bounds of the model *)

MaxStreams == 3     \* points in the registry, the metadata point included
MaxEvents == 3      \* socket objects created plus sequence numbers taken

-----------------------------------------------------------------------------
(* Names and texts *)

NoSock == 0

\* The characters of [A-Za-z_] among those used here ("1" and "-" are not)
NameStart == {"p", "q", "u", "_", "e", "a", "A", "b"}

\* self._appname
appname == <<"a", "p">>

\* "_experiment_metadata", abbreviated
MetaName == <<"_", "e">>


\* str() of a stream id or a sequence number
str(n) ==
    CASE n = 0 -> <<"0">> [] n = 1 -> <<"1">> [] n = 2 -> <<"2">>
      [] n = 3 -> <<"3">> [] n = 4 -> <<"4">> [] OTHER -> <<"5">>

\* str.lower() on the field names and type names used here
lower(s) ==
    CASE s = "A" -> "a" [] s = "INT32" -> "int32" [] OTHER -> s

\* re.match("[A-Za-z_][A-Za-z0-9_]*", name): the pattern is anchored at the
\* start only, so it matches as soon as the first character fits.
_is_valid_name(name) == Len(name) > 0 /\ name[1] \in NameStart

_is_valid_scalar_type(t) ==
    t \in {"bool", "int32", "uint32", "int64", "uint64", "double", "string", "blob", "guid"}

_is_valid_type(t) == _is_valid_scalar_type(t)

\* Escape backslashes, tabs, carriage returns and newlines
RECURSIVE _escape(_)
_escape(s) ==
    IF s = <<>> THEN <<>>
    ELSE (CASE Head(s) = "\\" -> <<"\\", "\\">>
            [] Head(s) = "\t" -> <<"\\", "t">>
            [] Head(s) = "\r" -> <<"\\", "r">>
            [] Head(s) = "\n" -> <<"\\", "n">>
            [] OTHER -> <<Head(s)>>) \o _escape(Tail(s))

-----------------------------------------------------------------------------
(* Schema declarations: a declaration is a sequence of space-separated     *)
(* words; a word is a name:type pair or text that is no such pair.         *)

Pair(n, t) == [pair |-> TRUE, name |-> n, type |-> t]
Junk == [pair |-> FALSE, name |-> "?", type |-> "?"]

DInt == <<Pair("a", "int32")>>
DFloat == <<Pair("a", "float")>>
DDup == <<Pair("a", "int32"), Pair("A", "int32")>>
DJunk == <<Pair("a", "int32"), Junk>>
DBlob == <<Pair("b", "blob")>>
DUpper == <<Pair("a", "INT32")>>

MetaDecl == <<Pair("subject", "string"), Pair("key", "string"), Pair("value", "string")>>

\* The text of a declaration (schema_str after strip())
RECURSIVE DeclText(_)
DeclText(d) ==
    IF d = <<>> THEN <<>>
    ELSE (IF d[1].pair THEN <<d[1].name, ":", d[1].type>> ELSE <<d[1].name>>)
         \o (IF Len(d) > 1 THEN <<" ">> ELSE <<>>) \o DeclText(Tail(d))

_is_valid_schema_str(d) == Len(d) >= 1 /\ \A i \in 1..Len(d) : d[i].pair

\* re.findall of the name:type pattern
findall(d) == SelectSeq(d, LAMBDA w : w.pair)

-----------------------------------------------------------------------------
(* Python values.  A value carries its type, the text str() gives for it,  *)
(* whether int() and float() accept it, and then the integer it converts   *)
(* to, written q * 2^31 + r with 0 <= r < 2^31.                            *)

Val(py, s, num, q, r) == [py |-> py, s |-> s, num |-> num, q |-> q, r |-> r]

StrVal(text) == Val("str", text, FALSE, 0, 0)

V5 == Val("int", <<"5">>, TRUE, 0, 5)
VBig == Val("int", <<"2147483648">>, TRUE, 1, 0)
VText == Val("str", <<"x", "\t">>, FALSE, 0, 0)
VNone == Val("NoneType", <<"None">>, FALSE, 0, 0)
VBytes == Val("bytes", <<"b'x'">>, FALSE, 0, 0)


\* What converting or formatting one item gives: its text, or the exception raised.
Text(t) == [exc |-> "no", text |-> t]
Raise(e) == [exc |-> e, text |-> <<>>]
OutOfRange == [exc |-> "range", text |-> <<>>]

\* int(item), then the range check lo <= x <= hi stated on q and r, then str(x)
IntField(item, inrange) ==
    IF item.py = "NoneType" THEN Raise("TypeError")
    ELSE IF ~item.num THEN Raise("ValueError")
    ELSE IF ~inrange THEN OutOfRange
    ELSE Text(item.s)

\* One pass of the loop of _marshal: the field text for item under type
MarshalItem(type, item) ==
    CASE type = "int32" ->
            IntField(item, item.q \in {-1, 0})
      [] type = "uint32" ->
            IntField(item, item.q \in {0, 1} \/ (item.q = 2 /\ item.r = 0))
      [] type = "int64" ->
            IntField(item, (item.q \div 2) >= -2147483647 - 1 /\ (item.q \div 2) <= 2147483647)
      [] type = "uint64" \/ type = "guid" ->
            IntField(item, item.q >= 0 /\ (item.q \div 4) <= 2147483647)
      [] type = "bool" ->
            Text(IF (item.py = "int" /\ (item.q # 0 \/ item.r # 0))
                    \/ (item.py \in {"str", "bytes"} /\ item.s # <<>>)
                 THEN <<"True">> ELSE <<"False">>)
      [] type = "double" ->
            IF item.py = "NoneType" THEN Raise("TypeError")
            ELSE IF ~item.num THEN Raise("ValueError")
            ELSE Text(item.s \o <<".0">>)
      [] type = "blob" ->
            \* base64.b64encode(item): the module imports b64encode only, the
            \* name base64 is unbound, and NameError is not caught by _marshal.
            Raise("NameError")
      [] type = "string" ->
            Text(_escape(item.s))
      [] OTHER ->
            Raise("UnknownType")

\* The result of _marshal: a record text (res = "str"), None, or an exception
\* that leaves the public call (res = "raise").
MarshalNone == [res |-> "None", stream |-> 0, seqno |-> 0, fields |-> <<>>]
MarshalRaise == [res |-> "raise", stream |-> 0, seqno |-> 0, fields |-> <<>>]

RECURSIVE MarshalFields(_, _, _)
MarshalFields(schema, values, i) ==
    IF i > Len(schema) THEN [exc |-> "no", fields |-> <<>>]
    ELSE LET f == MarshalItem(schema[i].type, values[i])
         IN IF f.exc # "no" THEN [exc |-> f.exc, fields |-> <<>>]
            ELSE LET rest == MarshalFields(schema, values, i + 1)
                 IN IF rest.exc # "no" THEN rest
                    ELSE [exc |-> "no", fields |-> <<f.text>> \o rest.fields]

_marshal(stream, seqno, schema, values) ==
    IF Len(schema) # Len(values) THEN MarshalNone
    ELSE LET m == MarshalFields(schema, values, 1)
         IN IF m.exc = "no"
            THEN [res |-> "str", stream |-> stream, seqno |-> seqno, fields |-> m.fields]
            ELSE IF m.exc = "NameError" THEN MarshalRaise
            ELSE MarshalNone

-----------------------------------------------------------------------------
(* The registry *)

Point(stream, names, schema, decl, seqno) ==
    [stream |-> stream, names |-> names, schema |-> schema, schema_str |-> decl,
     seqno |-> seqno]

\* The qualified name _add_schema writes in the schema line
Target(mpname) ==
    IF mpname = MetaName THEN mpname ELSE appname \o <<"_">> \o mpname

AddSchemaOk_noTypeCheck(decl) ==
    LET schema == findall(decl)
    IN \A i, j \in 1..Len(schema) :
           i < j => lower(schema[i].name) # lower(schema[j].name)

\* The loop of _add_schema returns None on a repeated field name (after
\* lower()) or on a type that is not valid (after lower()).
AddSchemaOk(decl) ==
    LET schema == findall(decl)
    IN /\ \A i, j \in 1..Len(schema) :
              i < j => lower(schema[i].name) # lower(schema[j].name)
       /\ \A i \in 1..Len(schema) : _is_valid_type(lower(schema[i].type))

\* The line _add_schema appends to self._schema_str
SchemaLine(n, mpname, decl) ==
    <<"schema: ">> \o str(n) \o <<" ">> \o Target(mpname) \o <<" ">>
        \o DeclText(decl) \o <<"\n">>

\* self._schemas after _add_schema stored mpname: names holds the lowered
\* field names, schema the pairs as findall returned them.
AddSchemaPoint(S, n, mpname, decl) ==
    LET schema == findall(decl)
    IN [x \in DOMAIN S \cup {mpname} |->
           IF x = mpname
           THEN Point(n, {lower(schema[i].name) : i \in 1..Len(schema)}, schema, decl, 0)
           ELSE S[x]]

NextStreams_noIncrement(n) == n

\* self._streams after _add_schema stored a point
NextStreams(n) == n + 1

_marshal_schema(S, mpname) ==
    str(S[mpname].stream) \o <<" ">> \o appname \o <<"_">> \o mpname \o <<" ">>
        \o DeclText(S[mpname].schema_str)

_marshal_measurement_restartsSeqno(S, mpname, values) ==
    IF starttime = "None" THEN [schemas |-> S, m |-> MarshalRaise]
    ELSE [schemas |-> [S EXCEPT ![mpname].seqno = IF S[mpname].seqno = 0 THEN 1 ELSE 0],
          m |-> _marshal(S[mpname].stream, S[mpname].seqno, S[mpname].schema, values)]

\* _marshal_measurement: the timestamp needs the start time; the counter is
\* stored incremented before _marshal runs.
_marshal_measurement(S, mpname, values) ==
    IF starttime = "None" THEN [schemas |-> S, m |-> MarshalRaise]
    ELSE [schemas |-> [S EXCEPT ![mpname].seqno = S[mpname].seqno + 1],
          m |-> _marshal(S[mpname].stream, S[mpname].seqno, S[mpname].schema, values)]

_marshal_metadata_ownCounter(S, mpname, key, value, fname) ==
    LET S1 == [S EXCEPT ![mpname].seqno = S[mpname].seqno + 1]
        base == <<".">> \o (IF mpname # MetaName THEN appname \o <<"_">> \o mpname ELSE <<>>)
        withf == mpname # MetaName /\ fname # "None"
        subject == IF withf THEN base \o <<".", fname>> ELSE base
    IN IF starttime = "None" THEN [schemas |-> S1, m |-> MarshalRaise]
       ELSE IF withf /\ fname \notin S1[mpname].names
            THEN [schemas |-> S1, m |-> MarshalNone]
       ELSE [schemas |-> S1,
             m |-> _marshal(S[mpname].stream, S[mpname].seqno, S[MetaName].schema,
                            <<StrVal(subject), key, value>>)]

_marshal_metadata_anyField(S, mpname, key, value, fname) ==
    LET S1 == [S EXCEPT ![MetaName].seqno = S[MetaName].seqno + 1]
        base == <<".">> \o (IF mpname # MetaName THEN appname \o <<"_">> \o mpname ELSE <<>>)
        withf == mpname # MetaName /\ fname # "None"
        subject == IF withf THEN base \o <<".", fname>> ELSE base
    IN IF starttime = "None" THEN [schemas |-> S1, m |-> MarshalRaise]
       ELSE [schemas |-> S1,
             m |-> _marshal(S[MetaName].stream, S[MetaName].seqno, S[MetaName].schema,
                            <<StrVal(subject), key, value>>)]

\* _marshal_metadata: the counter of the metadata point is stored incremented
\* first; the record is made with the schema of the metadata point.
_marshal_metadata(S, mpname, key, value, fname) ==
    LET S1 == [S EXCEPT ![MetaName].seqno = S[MetaName].seqno + 1]
        base == <<".">> \o (IF mpname # MetaName THEN appname \o <<"_">> \o mpname ELSE <<>>)
        withf == mpname # MetaName /\ fname # "None"
        subject == IF withf THEN base \o <<".", fname>> ELSE base
    IN IF starttime = "None" THEN [schemas |-> S1, m |-> MarshalRaise]
       ELSE IF withf /\ fname \notin S1[mpname].names
            THEN [schemas |-> S1, m |-> MarshalNone]
       ELSE [schemas |-> S1,
             m |-> _marshal(S[MetaName].stream, S[MetaName].seqno, S[MetaName].schema,
                            <<StrVal(subject), key, value>>)]

-----------------------------------------------------------------------------
(* The transport and the fallback sink *)

\* One successful write
Entry(dest, conn, kind, m) ==
    [dest |-> dest, conn |-> conn, kind |-> kind,
     stream |-> m.stream, seqno |-> m.seqno, fields |-> m.fields]

\* The header _connect sends: the key-value lines, the accumulated schema
\* lines, the content line and the empty line
HeaderHead(st) ==
    <<"protocol: 4\n", "domain: ", "oml_domain", "\n", "start-time: ", st, "\n",
      "sender-id: ", "oml_id", "\n", "app-name: ">> \o appname \o <<"\n">>

HeaderTail == <<"content: text\n\n">>

Header_noSchemas(st) == HeaderHead(st) \o HeaderTail

Header(st) == HeaderHead(st) \o schema_str \o HeaderTail

\* self._sock.send: raises when the transport fails (env) or there is no socket
SendOk(env) == env = "ok" /\ sock # NoSock

\* The last public call
Call(op, ret, io) == [op |-> op, pre |-> state, ret |-> ret, io |-> io]

Truthy(ret) == ret \in {"True", "list"}

\* The return value after a marshal that gave no record
NoRecord(m) == IF m.res = "raise" THEN "raise" ELSE "False"

_inject_measurement(op, mpname, values, env) ==
    LET mm == _marshal_measurement(schemas, mpname, values)
    IN /\ schemas' = mm.schemas
       /\ IF mm.m.res = "str"
          THEN IF SendOk(env)
               THEN /\ wire' = Append(wire, Entry("sock", sock, "record", mm.m))
                    /\ call' = Call(op, "True", <<>>)
               ELSE /\ wire' = wire
                    /\ call' = Call(op, "False", <<>>)
          ELSE /\ wire' = wire
               /\ call' = Call(op, NoRecord(mm.m), <<>>)

_write_measurement_toSock(op, mpname, values) ==
    LET mm == _marshal_measurement(schemas, mpname, values)
    IN /\ schemas' = mm.schemas
       /\ IF mm.m.res = "str"
          THEN /\ wire' = Append(wire, Entry("sock", sock, "record", mm.m))
               /\ call' = Call(op, "True", <<>>)
          ELSE /\ wire' = wire
               /\ call' = Call(op, NoRecord(mm.m), <<>>)

_write_measurement(op, mpname, values) ==
    LET mm == _marshal_measurement(schemas, mpname, values)
    IN /\ schemas' = mm.schemas
       /\ IF mm.m.res = "str"
          THEN /\ wire' = Append(wire, Entry("stdout", NoSock, "record", mm.m))
               /\ call' = Call(op, "True", <<>>)
          ELSE /\ wire' = wire
               /\ call' = Call(op, NoRecord(mm.m), <<>>)

\* S is self._schemas when the call is made (addmp has stored the new point).
_inject_metadata(op, S, mpname, key, value, fname, env) ==
    LET mm == _marshal_metadata(S, mpname, key, value, fname)
    IN /\ schemas' = mm.schemas
       /\ IF mm.m.res = "str"
          THEN IF SendOk(env)
               THEN /\ wire' = Append(wire, Entry("sock", sock, "record", mm.m))
                    /\ call' = Call(op, "True", <<>>)
               ELSE /\ wire' = wire
                    /\ call' = Call(op, "False", <<>>)
          ELSE /\ wire' = wire
               /\ call' = Call(op, NoRecord(mm.m), <<>>)

_write_metadata(op, S, mpname, key, value, fname) ==
    LET mm == _marshal_metadata(S, mpname, key, value, fname)
    IN /\ schemas' = mm.schemas
       /\ IF mm.m.res = "str"
          THEN /\ wire' = Append(wire, Entry("stdout", NoSock, "record", mm.m))
               /\ call' = Call(op, "True", <<>>)
          ELSE /\ wire' = wire
               /\ call' = Call(op, NoRecord(mm.m), <<>>)

_inject_schema(S, mpname, env) ==
    _inject_metadata("addmp", S, MetaName, StrVal(<<"schema">>),
                     StrVal(_marshal_schema(S, mpname)), "None", env)

_write_schema_silent(S, mpname) ==
    /\ schemas' = S
    /\ wire' = wire
    /\ call' = Call("addmp", "list", <<>>)

_write_schema(S, mpname) ==
    _write_metadata("addmp", S, MetaName, StrVal(<<"schema">>),
                    StrVal(_marshal_schema(S, mpname)), "None")

-----------------------------------------------------------------------------
(* The public operations *)

\* The outcomes of the transport during _connect: no failure, or the step
\* that raises: socket.socket(), connect() (with the settimeout and
\* shutdown(SHUT_RD) around it), or the send of the header.
ConnectEnv == {"ok", "socket", "connect", "send"}
\* ... during _disconnect: no failure, shutdown(SHUT_WR) raises, close() raises
DisconnectEnv == {"ok", "shutdown", "close"}
\* ... during the send of a record
SendEnv == {"ok", "send"}

\* The calls the application makes: addmp(mpname, schema_str),
\* inject(mpname, values), inject_metadata(mpname, key, value, fname)
AddmpArgs ==
    { <<(<<"p">>), DInt>>, <<(<<"q">>), DInt>>, <<(<<"p">>), DFloat>>, <<(<<"q">>), DDup>>,
      <<(<<"p">>), DJunk>>, <<(<<"q">>), (<<>>)>>, <<(<<"1">>), DInt>>, <<(<<>>), DInt>>,
      <<MetaName, DInt>> }

InjectArgs ==
    { <<(<<"p">>), (<<V5>>)>>, <<(<<"q">>), (<<V5>>)>>, <<(<<"p">>), (<<>>)>>,
      <<(<<"q">>), (<<V5, V5>>)>>, <<(<<"p">>), (<<VBig>>)>>, <<(<<"p">>), (<<VText>>)>>,
      <<(<<"q">>), (<<VNone>>)>>, <<(<<"1">>), (<<V5>>)>> }

MetadataArgs ==
    { <<(<<"p">>), (<<"u">>), VText, "a">>,
      <<(<<"p">>), (<<"u">>), VText, "z">>, <<(<<"p">>), (<<"1">>), VText, "None">>,
      <<MetaName, (<<"u">>), VText, "None">>, <<(<<"1">>), (<<"u">>), VText, "None">> }

\* Calls with a name that has a character outside [A-Za-z0-9_] after its
\* first, with a blob field, and with a type written in upper case
AddmpArgsWide ==
    { <<(<<"p", "-">>), DInt>>, <<(<<"b">>), DBlob>>, <<(<<"q">>), DUpper>> }

InjectArgsWide ==
    { <<(<<"p", "-">>), (<<V5>>)>>, <<(<<"b">>), (<<VBytes>>)>>, <<(<<"q">>), (<<V5>>)>> }

\* The transport calls _connect makes under env
ConnectIO(env) ==
    CASE env = "socket" -> <<"socket!">>
      [] env = "connect" -> <<"socket", "connect!">>
      [] env = "send" -> <<"socket", "connect", "send!">>
      [] OTHER -> <<"socket", "connect", "send">>

\* _connect: the socket object is stored in self._sock as soon as it is
\* created; the header is one send.
_connect(env) ==
    IF env = "socket"
    THEN UNCHANGED <<sock, nsocks, wire>>
    ELSE /\ sock' = nsocks + 1
         /\ nsocks' = nsocks + 1
         /\ wire' = IF env = "ok"
                    THEN Append(wire, [dest |-> "sock", conn |-> nsocks + 1,
                                       kind |-> "header", stream |-> 0, seqno |-> 0,
                                       fields |-> <<Header(starttime')>>])
                    ELSE wire

\* The transport calls _disconnect makes under env
DisconnectIO(env) ==
    CASE env = "shutdown" -> <<"shutdown!">>
      [] env = "close" -> <<"shutdown", "close!">>
      [] OTHER -> <<"shutdown", "close">>

\* _disconnect: shutdown(SHUT_WR), close(), then self._sock = None; an
\* exception ends it where it is raised.
_disconnect(env) ==
    sock' = IF env = "ok" THEN NoSock ELSE sock

\* The sequence numbers taken so far, over the points in N
RECURSIVE Taken(_)
Taken(N) ==
    IF N = {} THEN 0
    ELSE LET n == CHOOSE x \in N : TRUE IN schemas[n].seqno + Taken(N \ {n})

\* Room for one more socket object or one more increment of a counter (hence
\* one more record)
Room == nsocks + Taken(DOMAIN schemas) < MaxEvents

start_accepts_any(st) == TRUE

start_accepts_disconnectedOnly(st) == st = "DISCONNECTED"

\* The states start() acts in
start_accepts(st) == st = "DISCONNECTED" \/ st = "DISABLED"

StartState_staysDisconnected(connected) ==
    IF connected THEN "CONNECTED" ELSE "DISCONNECTED"

\* The state start() ends in, given whether _connect was tried and returned True
StartState(connected) == IF connected THEN "CONNECTED" ELSE "DISABLED"

start(env) ==
    IF start_accepts(state)
    THEN /\ attrs => Room
         /\ starttime' = "time"
         /\ IF attrs THEN _connect(env) ELSE UNCHANGED <<sock, nsocks, wire>>
         /\ state' = StartState(attrs /\ env = "ok")
         /\ call' = Call("start", "True", IF attrs THEN ConnectIO(env) ELSE <<>>)
         /\ UNCHANGED <<streams, schemas, schema_str, attrs>>
    ELSE /\ call' = Call("start", "False", <<>>)
         /\ UNCHANGED <<state, sock, starttime, streams, schemas, schema_str, attrs,
                        nsocks, wire>>

close_resetsCounters(env) ==
    IF state = "CONNECTED"
    THEN /\ _disconnect(env)
         /\ starttime' = "None"
         /\ state' = "DISCONNECTED"
         /\ schemas' = [n \in DOMAIN schemas |-> [schemas[n] EXCEPT !.seqno = 0]]
         /\ call' = Call("close", "True", DisconnectIO(env))
         /\ UNCHANGED <<streams, schema_str, attrs, nsocks, wire>>
    ELSE IF state = "DISABLED"
    THEN /\ starttime' = "None"
         /\ state' = "DISCONNECTED"
         /\ schemas' = [n \in DOMAIN schemas |-> [schemas[n] EXCEPT !.seqno = 0]]
         /\ call' = Call("close", "True", <<>>)
         /\ UNCHANGED <<sock, streams, schema_str, attrs, nsocks, wire>>
    ELSE /\ call' = Call("close", "False", <<>>)
         /\ UNCHANGED <<state, sock, starttime, streams, schemas, schema_str, attrs,
                        nsocks, wire>>

close_keepsStartTime(env) ==
    IF state = "CONNECTED"
    THEN /\ _disconnect(env)
         /\ state' = "DISCONNECTED"
         /\ call' = Call("close", "True", DisconnectIO(env))
         /\ UNCHANGED <<starttime, streams, schemas, schema_str, attrs, nsocks, wire>>
    ELSE IF state = "DISABLED"
    THEN /\ starttime' = "None"
         /\ state' = "DISCONNECTED"
         /\ call' = Call("close", "True", <<>>)
         /\ UNCHANGED <<sock, streams, schemas, schema_str, attrs, nsocks, wire>>
    ELSE /\ call' = Call("close", "False", <<>>)
         /\ UNCHANGED <<state, sock, starttime, streams, schemas, schema_str, attrs,
                        nsocks, wire>>

close(env) ==
    IF state = "CONNECTED"
    THEN /\ _disconnect(env)
         /\ starttime' = "None"
         /\ state' = "DISCONNECTED"
         /\ call' = Call("close", "True", DisconnectIO(env))
         /\ UNCHANGED <<streams, schemas, schema_str, attrs, nsocks, wire>>
    ELSE IF state = "DISABLED"
    THEN /\ starttime' = "None"
         /\ state' = "DISCONNECTED"
         /\ call' = Call("close", "True", <<>>)
         /\ UNCHANGED <<sock, streams, schemas, schema_str, attrs, nsocks, wire>>
    ELSE /\ call' = Call("close", "False", <<>>)
         /\ UNCHANGED <<state, sock, starttime, streams, schemas, schema_str, attrs,
                        nsocks, wire>>

\* A call that returns before it changes anything
Rejected(op, ret) ==
    /\ call' = Call(op, ret, <<>>)
    /\ UNCHANGED <<state, sock, starttime, streams, schemas, schema_str, attrs, nsocks, wire>>

addmp(mpname, decl, env) ==
    /\ Room
    /\ streams < MaxStreams
    /\ state = "CONNECTED" \/ env = "ok"
    /\ IF ~_is_valid_name(mpname) THEN Rejected("addmp", "False")
       ELSE IF mpname \in DOMAIN schemas THEN Rejected("addmp", "False")
       ELSE IF ~_is_valid_schema_str(decl) THEN Rejected("addmp", "False")
       ELSE IF ~AddSchemaOk(decl) THEN Rejected("addmp", "None")
       ELSE LET S == AddSchemaPoint(schemas, streams, mpname, decl)
            IN /\ schema_str' = schema_str \o SchemaLine(streams, mpname, decl)
               /\ streams' = NextStreams(streams)
               /\ IF state = "CONNECTED" THEN _inject_schema(S, mpname, env)
                  ELSE IF state = "DISABLED" THEN _write_schema(S, mpname)
                  ELSE /\ schemas' = S
                       /\ wire' = wire
                       /\ call' = Call("addmp", "list", <<>>)
               /\ UNCHANGED <<state, sock, starttime, attrs, nsocks>>

inject_demotes(mpname, values, env) ==
    /\ Room
    /\ state = "CONNECTED" \/ env = "ok"
    /\ IF ~_is_valid_name(mpname) THEN Rejected("inject", "False")
       ELSE IF mpname \notin DOMAIN schemas THEN Rejected("inject", "False")
       ELSE IF state = "CONNECTED"
            THEN /\ _inject_measurement("inject", mpname, values, env)
                 /\ state' = IF env = "ok" THEN state ELSE "DISABLED"
                 /\ UNCHANGED <<sock, starttime, streams, schema_str, attrs, nsocks>>
       ELSE IF state = "DISABLED"
            THEN /\ _write_measurement("inject", mpname, values)
                 /\ UNCHANGED <<state, sock, starttime, streams, schema_str, attrs, nsocks>>
       ELSE Rejected("inject", "False")

inject(mpname, values, env) ==
    /\ Room
    /\ state = "CONNECTED" \/ env = "ok"
    /\ IF ~_is_valid_name(mpname) THEN Rejected("inject", "False")
       ELSE IF mpname \notin DOMAIN schemas THEN Rejected("inject", "False")
       ELSE IF state = "CONNECTED"
            THEN /\ _inject_measurement("inject", mpname, values, env)
                 /\ UNCHANGED <<state, sock, starttime, streams, schema_str, attrs, nsocks>>
       ELSE IF state = "DISABLED"
            THEN /\ _write_measurement("inject", mpname, values)
                 /\ UNCHANGED <<state, sock, starttime, streams, schema_str, attrs, nsocks>>
       ELSE Rejected("inject", "False")

inject_metadata(mpname, key, value, fname, env) ==
    /\ Room
    /\ state = "CONNECTED" \/ env = "ok"
    /\ IF ~_is_valid_name(mpname) THEN Rejected("inject_metadata", "False")
       ELSE IF mpname \notin DOMAIN schemas THEN Rejected("inject_metadata", "False")
       ELSE IF ~_is_valid_name(key) THEN Rejected("inject_metadata", "False")
       ELSE IF state = "CONNECTED"
            THEN /\ _inject_metadata("inject_metadata", schemas, mpname, StrVal(key),
                                     value, fname, env)
                 /\ UNCHANGED <<state, sock, starttime, streams, schema_str, attrs, nsocks>>
       ELSE IF state = "DISABLED"
            THEN /\ _write_metadata("inject_metadata", schemas, mpname, StrVal(key),
                                    value, fname)
                 /\ UNCHANGED <<state, sock, starttime, streams, schema_str, attrs, nsocks>>
       ELSE Rejected("inject_metadata", "False")

-----------------------------------------------------------------------------
(* The session after __init__: the metadata point is registered as stream 0 *)

Init ==
    /\ state = "DISCONNECTED"
    /\ sock = NoSock
    /\ starttime = "None"
    /\ streams = NextStreams(0)
    /\ schemas = AddSchemaPoint(<<>>, 0, MetaName, MetaDecl)
    /\ schema_str = SchemaLine(0, MetaName, MetaDecl)
    /\ attrs \in BOOLEAN
    /\ nsocks = 0
    /\ wire = <<>>
    /\ call = [op |-> "init", pre |-> "DISCONNECTED", ret |-> "None", io |-> <<>>]

Next ==
    \/ \E env \in ConnectEnv : start(env)
    \/ \E env \in DisconnectEnv : close(env)
    \/ \E a \in AddmpArgs, env \in SendEnv : addmp(a[1], a[2], env)
    \/ \E a \in InjectArgs, env \in SendEnv : inject(a[1], a[2], env)
    \/ \E a \in MetadataArgs, env \in SendEnv : inject_metadata(a[1], a[2], a[3], a[4], env)

Spec == Init /\ [][Next]_vars

\* The same session driven by the calls of AddmpArgsWide and InjectArgsWide
NextWide ==
    \/ \E env \in ConnectEnv : start(env)
    \/ \E env \in DisconnectEnv : close(env)
    \/ \E a \in AddmpArgsWide, env \in SendEnv : addmp(a[1], a[2], env)
    \/ \E a \in InjectArgsWide, env \in SendEnv : inject(a[1], a[2], env)

SpecWide == Init /\ [][NextWide]_vars

-----------------------------------------------------------------------------
(* Properties *)

\* The records written for stream id s, on any socket or on stdout, in order
Records(s) == SelectSeq(wire, LAMBDA e : e.kind = "record" /\ e.stream = s)

\* The step appends exactly the entry e to wire
Appends(e) == wire' = Append(wire, e)

\* The step appends one entry to wire, or none
AtMostOneWrite ==
    \/ wire' = wire
    \/ Len(wire') = Len(wire) + 1 /\ SubSeq(wire', 1, Len(wire)) = wire

\* The sequence counter of every point is what it was
CountersUnchanged ==
    /\ DOMAIN schemas' = DOMAIN schemas
    /\ \A n \in DOMAIN schemas : schemas'[n].seqno = schemas[n].seqno

\* C1: for every registered ordinary point (only inject writes on its
\* stream), the records emitted for it, on sockets and on stdout taken
\* together in emission order, carry the sequence numbers 0, 1, 2, ... with
\* no gap.
C1_SeqnosHaveNoGaps ==
    \A n \in DOMAIN schemas \ {MetaName} :
        LET r == Records(schemas[n].stream)
        IN \A i \in 1..Len(r) : r[i].seqno = i - 1

\* C2: an inject call that returns failure in CONNECTED or DISABLED leaves
\* the sequence counter of every point unchanged.
C2_FailedInjectKeepsCounters ==
    [][(call'.op = "inject" /\ state \in {"CONNECTED", "DISABLED"} /\ call'.ret = "False")
           => CountersUnchanged]_vars

\* C3: start() called in DISCONNECTED returns success; it ends in CONNECTED,
\* with the header written, exactly when the connection attributes are valid
\* and socket creation, connect and header send all succeed, and in DISABLED
\* otherwise; it never ends in DISCONNECTED.
C3_StartFromDisconnected ==
    [][(call'.op = "start" /\ state = "DISCONNECTED")
           => /\ call'.ret = "True"
              /\ state' \in {"CONNECTED", "DISABLED"}
              /\ state' = "CONNECTED" <=> (attrs /\ call'.io = <<"socket", "connect", "send">>)
              /\ state' = "CONNECTED" =>
                     (Len(wire') = Len(wire) + 1 /\ wire'[Len(wire')].kind = "header")
              /\ state' = "DISABLED" => wire' = wire]_vars

\* C3 witness: a start() made in DISCONNECTED with valid attributes met a
\* transport failure and ended in DISABLED.
C3_Witness ==
    /\ call.op = "start" /\ call.pre = "DISCONNECTED" /\ call.ret = "True"
    /\ attrs /\ call.io \in {<<"socket", "connect!">>, <<"socket", "connect", "send!">>}
    /\ state = "DISABLED"

\* C4: a record of inject or inject_metadata made in CONNECTED goes to the
\* current socket and never to stdout; one made in DISABLED goes to stdout and
\* never to a socket; in DISCONNECTED both calls return failure, write nothing
\* and change no counter; a call that returns success has written its record.
C4_RoutedByState ==
    [][call'.op \in {"inject", "inject_metadata"}
           => /\ AtMostOneWrite
              /\ Truthy(call'.ret) => Len(wire') = Len(wire) + 1
              /\ (state = "CONNECTED" /\ wire' # wire) =>
                     /\ wire'[Len(wire')].kind = "record"
                     /\ wire'[Len(wire')].dest = "sock"
                     /\ wire'[Len(wire')].conn = sock
              /\ (state = "DISABLED" /\ wire' # wire) =>
                     /\ wire'[Len(wire')].kind = "record"
                     /\ wire'[Len(wire')].dest = "stdout"
              /\ state = "DISCONNECTED" =>
                     (call'.ret = "False" /\ wire' = wire /\ CountersUnchanged)]_vars

\* C4 witness: an inject made in DISABLED has just written to stdout, in a
\* session that also wrote a record to a socket while it was CONNECTED.
C4_Witness ==
    /\ call.op = "inject" /\ call.pre = "DISABLED" /\ call.ret = "True"
    /\ wire[Len(wire)].dest = "stdout"
    /\ \E i \in 1..Len(wire) : wire[i].kind = "record" /\ wire[i].dest = "sock"

\* C5: close() in CONNECTED half-closes and closes the transport, close() in
\* DISABLED makes no transport call; both reset the start time, end in
\* DISCONNECTED, return success and leave the registry and the counters as
\* they were.
C5_CloseClosesTransport ==
    [][(call'.op = "close" /\ state \in {"CONNECTED", "DISABLED"})
           => /\ call'.io = IF state = "CONNECTED" THEN <<"shutdown", "close">> ELSE <<>>
              /\ starttime' = "None"
              /\ state' = "DISCONNECTED"
              /\ call'.ret = "True"
              /\ schemas' = schemas /\ streams' = streams]_vars

\* C6: start() in CONNECTED and close() in DISCONNECTED return failure and
\* change nothing: state, start time, socket, registry, counters, header text,
\* and nothing is written.
C6_WrongStateRejected ==
    [][((call'.op = "start" /\ state = "CONNECTED")
            \/ (call'.op = "close" /\ state = "DISCONNECTED"))
           => /\ call'.ret = "False"
              /\ call'.io = <<>>
              /\ UNCHANGED <<state, sock, starttime, streams, schemas, schema_str, attrs,
                             nsocks, wire>>]_vars

\* C6 witness: a start() made in CONNECTED was rejected, after a record had
\* been sent on the live connection.
C6_Witness ==
    /\ call.op = "start" /\ call.pre = "CONNECTED" /\ call.ret = "False"
    /\ state = "CONNECTED"
    /\ wire # <<>> /\ wire[Len(wire)].kind = "record"

\* C7 as claimed: a start() made in DISABLED attempts no connect and the
\* session stays in DISABLED; no step takes a session from DISABLED to
\* CONNECTED.
C7_DisabledStartAttemptsNothing ==
    [][/\ (call'.op = "start" /\ state = "DISABLED")
              => (state' = "DISABLED" /\ call'.io = <<>> /\ nsocks' = nsocks)
       /\ state = "DISABLED" => state' # "CONNECTED"]_vars

\* C7 as amended: a start() made in DISABLED is handled like one made in
\* DISCONNECTED: it returns success, records a start time and, when the
\* connection attributes are valid, attempts the connect; the session becomes
\* CONNECTED if socket creation, connect and header send succeed, and stays
\* DISABLED otherwise.
C7_DisabledStartRetries ==
    [][(call'.op = "start" /\ state = "DISABLED")
           => /\ call'.ret = "True"
              /\ starttime' = "time"
              /\ attrs <=> call'.io # <<>>
              /\ state' = "CONNECTED" <=> (attrs /\ call'.io = <<"socket", "connect", "send">>)
              /\ state' \in {"CONNECTED", "DISABLED"}]_vars

\* C7 witness: a start() made in DISABLED ended in CONNECTED.
C7_Witness ==
    call.op = "start" /\ call.pre = "DISABLED" /\ call.ret = "True" /\ state = "CONNECTED"

\* The schema lines of the points in N, in ascending stream id
RECURSIVE LinesOf(_)
LinesOf(N) ==
    IF N = {} THEN <<>>
    ELSE LET n == CHOOSE x \in N : \A y \in N : schemas[x].stream <= schemas[y].stream
         IN SchemaLine(schemas[n].stream, n, schemas[n].schema_str) \o LinesOf(N \ {n})

\* A socket entry of wire is a header exactly when it is the first entry of its
\* connection.
HeaderFirstAndOnce ==
    \A i \in 1..Len(wire) :
        wire[i].dest = "sock" =>
            (wire[i].kind = "header"
                <=> \A j \in 1..(i - 1) : ~(wire[j].dest = "sock" /\ wire[j].conn = wire[i].conn))

\* C8: on every connection the first write is the header, written once and
\* as one write before any record; the header of a start() that ends in
\* CONNECTED holds one schema line for each point registered at that moment,
\* the metadata point first and the ordinary points in ascending stream id.
C8_HeaderOncePerConnection ==
    /\ []HeaderFirstAndOnce
    /\ [][(call'.op = "start" /\ state' = "CONNECTED" /\ state # "CONNECTED")
              => /\ \A i \in 1..Len(wire) : wire[i].conn # sock'
                 /\ Appends([dest |-> "sock", conn |-> sock', kind |-> "header",
                             stream |-> 0, seqno |-> 0,
                             fields |-> <<HeaderHead(starttime')
                                            \o SchemaLine(0, MetaName, MetaDecl)
                                            \o LinesOf(DOMAIN schemas \ {MetaName})
                                            \o HeaderTail>>])]_vars

\* C8 witness: a second connection has been opened after a first one that
\* carried a record, and the session has an ordinary point.
C8_Witness ==
    /\ state = "CONNECTED" /\ streams > 1
    /\ \E i, k, j \in 1..Len(wire) :
           /\ i < k /\ k < j
           /\ wire[i].kind = "header" /\ wire[j].kind = "header"
           /\ wire[k].kind = "record" /\ wire[k].dest = "sock"

\* The record that announces the point n of the registry after the step:
\* stream 0, the sequence number the metadata point had, subject ".", key
\* "schema", and as value the stream id, the qualified name and the
\* declaration of n.
Announcement(dest, conn, n) ==
    [dest |-> dest, conn |-> conn, kind |-> "record", stream |-> 0,
     seqno |-> schemas[MetaName].seqno,
     fields |-> << <<".">>, <<"schema">>,
                   str(schemas'[n].stream) \o <<" ">> \o Target(n) \o <<" ">>
                       \o DeclText(schemas'[n].schema_str) >>]

\* C9: an addmp that returns success has added one point to the registry; in
\* CONNECTED it has sent exactly one record announcing the point on the
\* current socket, in DISABLED it has written exactly that record to stdout,
\* in DISCONNECTED it has written nothing.
C9_AddmpAnnouncement ==
    [][(call'.op = "addmp" /\ Truthy(call'.ret))
           => /\ DOMAIN schemas \subseteq DOMAIN schemas'
              /\ Cardinality(DOMAIN schemas' \ DOMAIN schemas) = 1
              /\ \A n \in DOMAIN schemas' \ DOMAIN schemas :
                     CASE state = "CONNECTED" -> Appends(Announcement("sock", sock, n))
                       [] state = "DISABLED" -> Appends(Announcement("stdout", NoSock, n))
                       [] OTHER -> wire' = wire]_vars

\* C9 witness: an addmp made in DISABLED returned success and its
\* announcement is the last write, on stdout.
C9_Witness ==
    /\ call.op = "addmp" /\ call.pre = "DISABLED" /\ Truthy(call.ret)
    /\ wire # <<>> /\ wire[Len(wire)].dest = "stdout" /\ wire[Len(wire)].stream = 0

\* The stream ids of the registry are 0 for the metadata point and, for n
\* points, the n distinct values 0 .. n-1.
StreamIdsDense ==
    /\ MetaName \in DOMAIN schemas
    /\ schemas[MetaName].stream = 0
    /\ \A n, m \in DOMAIN schemas : n # m => schemas[n].stream # schemas[m].stream
    /\ \A n \in DOMAIN schemas : schemas[n].stream \in 0..(Cardinality(DOMAIN schemas) - 1)

\* C10: the metadata point has stream id 0, no two points share a stream id,
\* and a point that enters the registry gets as stream id 1 plus the number
\* of ordinary points registered before it, whatever the state it is
\* registered in and whatever calls were rejected before; the ids given
\* earlier stay as they are.
C10_DenseStreamIds ==
    /\ []StreamIdsDense
    /\ [][/\ \A n \in DOMAIN schemas :
                 n \in DOMAIN schemas' /\ schemas'[n].stream = schemas[n].stream
          /\ \A n \in DOMAIN schemas' \ DOMAIN schemas :
                 schemas'[n].stream = 1 + Cardinality(DOMAIN schemas \ {MetaName})]_vars

\* C10 witness: a second ordinary point has just been registered while
\* CONNECTED and has stream id 2.
C10_Witness ==
    /\ call.op = "addmp" /\ call.pre = "CONNECTED"
    /\ Cardinality(DOMAIN schemas) = 3
    /\ \E n \in DOMAIN schemas : schemas[n].stream = 2

\* Everything but the record of the last call is what it was
SessionUnchanged ==
    UNCHANGED <<state, sock, starttime, streams, schemas, schema_str, attrs, nsocks, wire>>

\* The scalar types a declaration may use
RecognizedTypes ==
    {"bool", "int32", "uint32", "int64", "uint64", "double", "string", "blob", "guid"}

\* The arguments of an addmp call have a validation fault: the name is empty
\* or starts with no letter or underscore, the name is registered, the
\* declaration is no list of name:type words, a field name repeats, or a type
\* is not a recognized one.
AddmpFault(mpname, decl) ==
    \/ mpname = <<>>
    \/ mpname[1] \notin NameStart
    \/ mpname \in DOMAIN schemas
    \/ decl = <<>>
    \/ \E i \in 1..Len(decl) : ~decl[i].pair
    \/ \E i, j \in 1..Len(decl) : i < j /\ lower(decl[i].name) = lower(decl[j].name)
    \/ \E i \in 1..Len(decl) : lower(decl[i].type) \notin RecognizedTypes

\* C11: an addmp call whose arguments have a validation fault returns
\* failure and changes nothing: the registered points, the next stream id,
\* the schema text of the header and every sequence counter are what they
\* were, and nothing is written to a socket or to stdout.
C11_RejectedAddmpChangesNothing ==
    [][\A a \in AddmpArgs, env \in SendEnv :
           (AddmpFault(a[1], a[2]) /\ addmp(a[1], a[2], env))
               => (~Truthy(call'.ret) /\ SessionUnchanged)]_vars

\* C11 witness: an addmp made in CONNECTED, with a point registered and a
\* record sent, was rejected by the field loop (repeated field name or
\* unrecognized type).
C11_Witness ==
    /\ call.op = "addmp" /\ call.pre = "CONNECTED" /\ call.ret = "None"
    /\ streams = 2
    /\ wire # <<>> /\ wire[Len(wire)].kind = "record"

\* fname is no field of the point mpname, as declared or case-folded
NoSuchField(mpname, fname) ==
    \A i \in 1..Len(schemas[mpname].schema) :
        /\ schemas[mpname].schema[i].name # fname
        /\ lower(schemas[mpname].schema[i].name) # fname

\* C12: inject_metadata on a registered ordinary point, with a field name
\* that is not in the schema of the point, returns failure and writes no
\* record, neither to the socket (CONNECTED) nor to stdout (DISABLED).
C12_UnknownFieldEmitsNothing ==
    [][\A a \in MetadataArgs, env \in SendEnv :
           (/\ state \in {"CONNECTED", "DISABLED"}
            /\ a[1] \in DOMAIN schemas \ {MetaName}
            /\ a[4] # "None"
            /\ NoSuchField(a[1], a[4])
            /\ inject_metadata(a[1], a[2], a[3], a[4], env))
               => (call'.ret = "False" /\ wire' = wire)]_vars

\* C12 witness: in a session that never had a socket, an inject_metadata made
\* in DISABLED returned failure, and the metadata point's counter shows that
\* a metadata record was marshaled for a field the point does not have: the
\* counter advanced and stdout got no record on stream 0.
C12_Witness ==
    /\ call.op = "inject_metadata" /\ call.pre = "DISABLED" /\ call.ret = "False"
    /\ nsocks = 0
    /\ schemas[MetaName].seqno = 1
    /\ streams = 2
    /\ Records(0) = <<>>

\* C13: in every reachable state the session holds a socket exactly when its
\* state is CONNECTED.
C13_HandleIffConnected ==
    (sock # NoSock) <=> (state = "CONNECTED")

\* C14: a registered point is never removed, its stream id and its ordered
\* field list (and the field names and declaration text kept with it) never
\* change, and its sequence counter never decreases, whatever call is made.
C14_PointsAreStable ==
    [][\A n \in DOMAIN schemas :
           /\ n \in DOMAIN schemas'
           /\ schemas'[n].stream = schemas[n].stream
           /\ schemas'[n].schema = schemas[n].schema
           /\ schemas'[n].names = schemas[n].names
           /\ schemas'[n].schema_str = schemas[n].schema_str
           /\ schemas'[n].seqno >= schemas[n].seqno]_vars

\* C14 witness: the first ordinary point has taken two sequence numbers, a
\* second ordinary point is registered, and the session has been closed.
C14_Witness ==
    /\ state = "DISCONNECTED" /\ call.op = "close" /\ call.ret = "True"
    /\ Cardinality(DOMAIN schemas) = 3
    /\ \E n \in DOMAIN schemas \ {MetaName} : schemas[n].seqno = 2 /\ schemas[n].stream = 1

\* C15: addmp, inject and inject_metadata leave the connection state and the
\* socket as they were, in every outcome; an inject or inject_metadata made in
\* CONNECTED whose send raises returns failure and the session stays
\* CONNECTED with its socket.
C15_OnlyStartAndCloseChangeState ==
    [][/\ call'.op \in {"addmp", "inject", "inject_metadata"}
              => (state' = state /\ sock' = sock /\ starttime' = starttime)
       /\ \A a \in InjectArgs :
              (state = "CONNECTED" /\ inject(a[1], a[2], "send"))
                  => (call'.ret = "False" /\ state' = "CONNECTED"
                      /\ sock' = sock /\ sock' # NoSock /\ wire' = wire)
       /\ \A a \in MetadataArgs :
              (state = "CONNECTED" /\ inject_metadata(a[1], a[2], a[3], a[4], "send"))
                  => (call'.ret = "False" /\ state' = "CONNECTED"
                      /\ sock' = sock /\ sock' # NoSock /\ wire' = wire)]_vars

\* C15 witness: on the first connection, with no ordinary point registered,
\* the metadata point's counter has advanced and no record followed the
\* header: the send of a metadata record raised, the call returned failure,
\* and the session is CONNECTED with its socket.
C15_Witness ==
    /\ call.op = "inject_metadata" /\ call.pre = "CONNECTED" /\ call.ret = "False"
    /\ state = "CONNECTED" /\ sock # NoSock /\ nsocks = 1
    /\ streams = 1
    /\ schemas[MetaName].seqno = 1
    /\ Records(0) = <<>>

\* A name made of one letter or underscore followed by letters, digits and
\* underscores only
WellFormedName(name) ==
    /\ Len(name) > 0
    /\ name[1] \in NameStart
    /\ \A i \in 2..Len(name) : name[i] \in NameStart \cup {"1"}

\* C16: a name that is empty or not made of one letter or underscore followed
\* by letters, digits and underscores only is never added to the registry.
C16_OnlyWellFormedNamesRegistered ==
    \A n \in DOMAIN schemas : WellFormedName(n)

\* C17: every inject call returns success or failure; none leaves with an
\* exception.
C17_InjectNeverRaises ==
    call.op = "inject" => call.ret \in {"True", "False"}

\* C19: every type stored in the field list of a registered point is one the
\* marshaler has a branch for, so that a value in range is not rejected as
\* being of an unknown type.
C19_StoredTypesAreMarshaled ==
    \A n \in DOMAIN schemas :
        \A i \in 1..Len(schemas[n].schema) :
            MarshalItem(schemas[n].schema[i].type, V5).exc # "UnknownType"

\* C18: an inject_metadata addressed to an ordinary point that returns
\* success has written one record on stream 0 carrying the sequence number the
\* metadata point had; the metadata point's counter has advanced by one and
\* every ordinary point is as it was.
C18_MetadataOnStreamZero ==
    [][\A a \in MetadataArgs, env \in SendEnv :
           (/\ a[1] \in DOMAIN schemas \ {MetaName}
            /\ inject_metadata(a[1], a[2], a[3], a[4], env)
            /\ call'.ret = "True")
               => /\ Len(wire') = Len(wire) + 1
                  /\ SubSeq(wire', 1, Len(wire)) = wire
                  /\ wire'[Len(wire')].kind = "record"
                  /\ wire'[Len(wire')].stream = 0
                  /\ wire'[Len(wire')].seqno = schemas[MetaName].seqno
                  /\ DOMAIN schemas' = DOMAIN schemas
                  /\ schemas'[MetaName].seqno = schemas[MetaName].seqno + 1
                  /\ \A n \in DOMAIN schemas \ {MetaName} : schemas'[n] = schemas[n]]_vars

\* C18 witness: the last write is the metadata record for field a of point
\* p, with sequence number 0 on stream 0, made after p itself had taken a
\* sequence number.
C18_Witness ==
    /\ call.op = "inject_metadata" /\ call.ret = "True"
    /\ <<"p">> \in DOMAIN schemas /\ schemas[<<"p">>].seqno = 1
    /\ wire # <<>>
    /\ wire[Len(wire)].stream = 0 /\ wire[Len(wire)].seqno = 0
    /\ wire[Len(wire)].fields[1] = <<".">> \o appname \o <<"_", "p", ".", "a">>
    /\ schemas[MetaName].seqno = 1

\* The start time is unset exactly in DISCONNECTED
StartTimeIffStarted ==
    (starttime = "None") <=> (state = "DISCONNECTED")

\* C20: in every reachable state the start time is unset exactly when the
\* state is DISCONNECTED; every start() that leaves DISCONNECTED sets it,
\* every close() that returns success unsets it, and every step that writes a
\* record is made with a start time set.
C20_StartTimeIffStarted ==
    /\ []StartTimeIffStarted
    /\ [][/\ (call'.op = "start" /\ state = "DISCONNECTED")
                 => (state' # "DISCONNECTED" /\ starttime' = "time")
          /\ (call'.op = "close" /\ call'.ret = "True")
                 => (state' = "DISCONNECTED" /\ starttime' = "None")
          /\ (wire' # wire /\ wire'[Len(wire')].kind = "record")
                 => starttime = "time"]_vars

\* C20 witness: a session that was CONNECTED and closed has been started
\* again, the connect failed, and it is DISABLED with a start time.
C20_Witness ==
    /\ call.op = "start" /\ call.pre = "DISCONNECTED"
    /\ state = "DISABLED" /\ starttime = "time"
    /\ \E i \in 1..Len(wire) : wire[i].kind = "header"

\* C21: no two records written in the lifetime of the session, to any socket
\* or to stdout, carry the same stream id and sequence number; every record
\* carries a sequence number below the counter its point has now.
C21_NoRecordNumberedTwice ==
    /\ \A i, j \in 1..Len(wire) :
           (i < j /\ wire[i].kind = "record" /\ wire[j].kind = "record"
                  /\ wire[i].stream = wire[j].stream)
               => wire[i].seqno # wire[j].seqno
    /\ \A i \in 1..Len(wire) :
           wire[i].kind = "record" =>
               \E n \in DOMAIN schemas :
                   schemas[n].stream = wire[i].stream /\ wire[i].seqno < schemas[n].seqno

\* C21 witness: an ordinary point has a record on a socket and, after a
\* close() and a start() that ended in DISABLED, a later record on stdout.
C21_Witness ==
    /\ state = "DISABLED"
    /\ \E i, j \in 1..Len(wire) :
           /\ i < j
           /\ wire[i].kind = "record" /\ wire[i].dest = "sock" /\ wire[i].stream = 1
           /\ wire[j].kind = "record" /\ wire[j].dest = "stdout" /\ wire[j].stream = 1

\* The header text t holds the schema line of stream id s
HeaderDeclares(t, s) ==
    \E k \in 1..(Len(t) - 1) : t[k] = "schema: " /\ <<t[k + 1]>> = str(s)

\* The entry e of wire declares stream id s: a header with the schema line of
\* s, or a metadata record with key "schema" whose value starts with s
Declares(e, s) ==
    \/ e.kind = "header" /\ HeaderDeclares(e.fields[1], s)
    \/ /\ e.kind = "record" /\ e.stream = 0
       /\ e.fields[2] = <<"schema">>
       /\ SubSeq(e.fields[3], 1, 1) = str(s)

\* C22: every measurement record sent on a socket for a stream id s is
\* preceded, on the same connection, by the declaration of s: in the header
\* of the connection or in an earlier schema record.
C22_DeclaredBeforeUse ==
    \A i \in 1..Len(wire) :
        (wire[i].dest = "sock" /\ wire[i].kind = "record" /\ wire[i].stream # 0)
            => \E j \in 1..(i - 1) :
                   /\ wire[j].dest = "sock" /\ wire[j].conn = wire[i].conn
                   /\ Declares(wire[j], wire[i].stream)

\* C23: an addmp that returns failure has registered no point: a name that
\* was not registered before the call is not registered after it.
C23_FailedAddmpRegistersNothing ==
    [][(call'.op = "addmp" /\ ~Truthy(call'.ret))
           => DOMAIN schemas' = DOMAIN schemas]_vars

====
